---- MODULE Spec2Model ----
(***************************************************************************)
(* Model of src/src/pipeline/data_pipeline.py (class DataPipeline) and of  *)
(* the schema src/src/models/model.py (class Data).                        *)
(*                                                                         *)
(* A table (pandas DataFrame read from the source) is a sequence of rows;  *)
(* a row is a function from the column names to cells.  A cell is the kind *)
(* of value pandas hands to pydantic: "int" (an integer such as 3), "frac" *)
(* (a float with a fractional part such as 2.5), "text" (a string that is  *)
(* neither a number nor a date, such as "abc").                            *)
(* An optional attribute (None or a frame) is <<>> or <<frame>>.           *)
(***************************************************************************)
EXTENDS Integers, Sequences, FiniteSets, TLC

VARIABLES
    suffix,             \* self.full_file_path.suffix.lower()
    raw_data,           \* self.raw_data
    validated_data,     \* self.validated_data
    transformed_data,   \* self.transformed_data
    input_data_errors,  \* self.input_data_errors
    pc,                 \* position of process(): the next stage to run, or "idle"
    df,                 \* the table handed from stage to stage inside process()
    i,                  \* rows of df consumed by the loop of _validate_inputs
    data_list,          \* local data_list of _validate_inputs
    errors,             \* local errors of _validate_inputs
    data_src,           \* history: for each entry of data_list, the row position it came from
    errors_src,         \* history: for each entry of errors, the row position it came from
    stages,             \* history: the stages started by the most recent process() call
    assigned,           \* history: the attributes the most recent process() call has assigned
    lastOp,             \* the most recent public call: "none", "process" or "export_data"
    raised,             \* exception that left the most recent call, "none" if it returned (or runs)
    printed,            \* messages printed by the most recent call
    args,               \* history: the flags of the most recent export_data call
    dirCreated,         \* the most recent export_data call ran mkdir successfully
    workbook,           \* sheets of the workbook saved by the most recent export_data call
    exported_items      \* local exported_items of the most recent export_data call

vars == <<suffix, raw_data, validated_data, transformed_data, input_data_errors,
          pc, df, i, data_list, errors, data_src, errors_src, stages, assigned,
          lastOp, raised, printed, args, dirCreated, workbook, exported_items>>

held == <<raw_data, validated_data, transformed_data, input_data_errors>>
locals == <<df, i, data_list, errors, data_src, errors_src>>
exportOut == <<args, dirCreated, workbook, exported_items>>

-----------------------------------------------------------------------------
(* Bounds *)

MaxRows == 2

-----------------------------------------------------------------------------
(* The schema: class Data *)

Fields == <<"var_1", "var_2", "date_var">>

FieldSet == {Fields[k] : k \in 1..Len(Fields)}

FieldType(f) ==
    CASE f = "var_1" -> "int"
      [] f = "var_2" -> "float"
      [] f = "date_var" -> "datetime"

Cells == {"int", "frac", "text"}

Rows == [FieldSet -> Cells]

\* Rows the source file of the pipeline runs is made of: one valid row, two
\* rows with one failing field, one row with two failing fields.
SourceRows == [var_1 : {"int", "text"}, var_2 : {"frac"}, date_var : {"int", "text"}]

Tables(rows, n) == UNION {[1..k -> rows] : k \in 0..n}

None == <<>>

Some(x) == <<x>>

\* pydantic's lax-mode validation of one cell against one field type:
\* the coerced value as model_dump(mode='json') serialises it, or the error type.
Coerce(type, cell) ==
    CASE type = "int" /\ cell = "int" -> [ok |-> TRUE, value |-> "int", msg |-> "none"]
      [] type = "int" /\ cell = "frac" -> [ok |-> FALSE, value |-> "none", msg |-> "int_from_float"]
      [] type = "int" /\ cell = "text" -> [ok |-> FALSE, value |-> "none", msg |-> "int_parsing"]
      [] type = "float" /\ cell = "int" -> [ok |-> TRUE, value |-> "float", msg |-> "none"]
      [] type = "float" /\ cell = "frac" -> [ok |-> TRUE, value |-> "float", msg |-> "none"]
      [] type = "float" /\ cell = "text" -> [ok |-> FALSE, value |-> "none", msg |-> "float_parsing"]
      [] type = "datetime" /\ cell = "int" -> [ok |-> TRUE, value |-> "iso", msg |-> "none"]
      [] type = "datetime" /\ cell = "frac" -> [ok |-> TRUE, value |-> "iso", msg |-> "none"]
      [] type = "datetime" /\ cell = "text" -> [ok |-> FALSE, value |-> "none", msg |-> "datetime_from_date_parsing"]

FieldOk(row, f) == Coerce(FieldType(f), row[f]).ok

\* e.errors(): one entry per failing field, in field-declaration order
ValidationErrors(row) ==
    LET failing == SelectSeq(Fields, LAMBDA f : ~FieldOk(row, f))
    IN  [k \in 1..Len(failing) |->
            [loc |-> failing[k],
             input |-> row[failing[k]],
             msg |-> Coerce(FieldType(failing[k]), row[failing[k]]).msg]]

\* e.error_count()
error_count(row) == Len(ValidationErrors(row))

\* Data(**row.to_dict()) succeeds
IsValid(row) == \A f \in FieldSet : FieldOk(row, f)

\* record.model_dump(mode='json')
model_dump(row) == [f \in FieldSet |-> Coerce(FieldType(f), row[f]).value]

-----------------------------------------------------------------------------
(* _clean_data *)

\* Mutant: one pass that drops the last row when it repeats an earlier one.
drop_duplicates_OnePass(t) ==
    IF t # <<>> /\ \E k \in 1..(Len(t) - 1) : t[k] = t[Len(t)]
    THEN SubSeq(t, 1, Len(t) - 1)
    ELSE t

\* Mutant: keep='last'.
RECURSIVE drop_duplicates_KeepLast(_)
drop_duplicates_KeepLast(t) ==
    IF t = <<>> THEN <<>>
    ELSE LET kept == drop_duplicates_KeepLast(Tail(t))
         IN  IF \E k \in 1..Len(kept) : kept[k] = Head(t) THEN kept ELSE <<Head(t)>> \o kept

\* df.drop_duplicates(): keep='first', over all columns, order kept
RECURSIVE drop_duplicates(_)
drop_duplicates(t) ==
    IF t = <<>> THEN <<>>
    ELSE LET kept == drop_duplicates(SubSeq(t, 1, Len(t) - 1))
             last == t[Len(t)]
         IN  IF \E k \in 1..Len(kept) : kept[k] = last THEN kept ELSE Append(kept, last)

-----------------------------------------------------------------------------
(* _validate_inputs: the loop over the rows *)

\* Mutant: the record is appended whether or not the row validated.
ValidRecords_Always(row) == <<model_dump(row)>>

\* the try branch: what one row appends to data_list
ValidRecords(row) == IF IsValid(row) THEN <<model_dump(row)>> ELSE <<>>

\* Mutant: the text holds the diagnostic of the current error only.
error_details_Single(row, j) ==
    <<[n |-> j,
       input |-> ValidationErrors(row)[j].input,
       msg |-> ValidationErrors(row)[j].msg]>>

\* ".\n".join(output_errors) after the first j errors: the numbered diagnostics
error_details(row, j) ==
    [n \in 1..j |-> [n |-> n,
                     input |-> ValidationErrors(row)[n].input,
                     msg |-> ValidationErrors(row)[n].msg]]

\* Mutant: total_errors is the running count of the errors seen so far.
error_row_Running(row, j) ==
    row @@ [total_errors |-> j, error_details |-> error_details(row, j)]

\* error_row built at the j-th error of the row
error_row(row, j) ==
    row @@ [total_errors |-> error_count(row), error_details |-> error_details(row, j)]

\* the except branch: what one row appends to errors
ErrorRecords(row) ==
    IF IsValid(row) THEN <<>>
    ELSE [j \in 1..Len(ValidationErrors(row)) |-> error_row(row, j)]

\* Mutant: the loop catches another exception class.
Caught_KeyError(exc) == exc = "KeyError"

\* except ValidationError: the only exception class the loop catches
Caught(exc) == exc = "ValidationError"

-----------------------------------------------------------------------------
(* _validate_inputs: the frames built after the loop *)

id_col == "insert here"

\* r[id_col] raises KeyError for some r of data_list
IndexKeyError(list) == \E k \in 1..Len(list) : id_col \notin DOMAIN list[k]

\* pd.to_datetime of one serialised value
to_datetime(v) == IF v = "iso" THEN "Timestamp" ELSE "Timestamp from epoch"

\* df_validated: indexed by id_col, id_col dropped from the columns
df_validated(list) ==
    [index |-> [k \in 1..Len(list) |-> to_datetime(list[k][id_col])],
     columns |-> IF list = <<>> THEN <<>>
                 ELSE SelectSeq(Fields, LAMBDA f : f # id_col /\ f \in DOMAIN list[1]),
     rows |-> [k \in 1..Len(list) |->
                  [f \in (DOMAIN list[k]) \ {id_col} |-> list[k][f]]]]

\* col_names: the input's columns, then total_errors and error_details
col_names == Fields \o <<"total_errors", "error_details">>

\* Mutant: a frame built from no records has no columns.
error_df_NoColumns(errs) ==
    [columns |-> IF errs = <<>> THEN <<>> ELSE col_names, rows |-> errs]

\* Mutant: the new error records are appended to the frame of the call before.
error_df_Accumulates(errs) ==
    [columns |-> col_names,
     rows |-> (IF input_data_errors = None THEN <<>> ELSE input_data_errors[1].rows) \o errs]

\* error_df
error_df(errs) == [columns |-> col_names, rows |-> errs]

\* error_df['total_errors'].sum()
RECURSIVE total_errors(_)
total_errors(errs) ==
    IF errs = <<>> THEN 0
    ELSE errs[1].total_errors + total_errors(Tail(errs))

\* the summary printed at the end of _validate_inputs
Summary(errs) ==
    IF total_errors(errs) > 0 THEN "inputs have failed validation"
    ELSE "All rows passed validation successfully"

\* DataFrame.empty: some axis has length 0
empty(frame) == Len(frame.rows) = 0 \/ Len(frame.columns) = 0

-----------------------------------------------------------------------------
(* process(): the stage sequence *)

StageOrder == <<"load", "clean", "validate", "transform">>

\* Mutant: process() hands the raw table to _validate_inputs, skipping _clean_data.
StageAfter_SkipClean(s) ==
    CASE s = "load" -> "validate"
      [] s = "clean" -> "validate"
      [] s = "validate" -> "transform"
      [] s = "transform" -> "idle"

\* the statement of process() that follows stage s
StageAfter(s) ==
    CASE s = "load" -> "clean"
      [] s = "clean" -> "validate"
      [] s = "validate" -> "transform"
      [] s = "transform" -> "idle"

NoLocals ==
    /\ df' = <<>>
    /\ i' = 0
    /\ data_list' = <<>>
    /\ errors' = <<>>
    /\ data_src' = <<>>
    /\ errors_src' = <<>>

NoArgs == [export_errors |-> FALSE, export_validated |-> FALSE]

NoExportOutput ==
    /\ dirCreated' = FALSE
    /\ workbook' = <<>>
    /\ exported_items' = <<>>

\* Mutant: the table is read and stored before the extension is checked.
load_data_StoresFirst(exists, t) ==
    /\ pc = "idle"
    /\ lastOp' = "process"
    /\ stages' = <<"load">>
    /\ printed' = <<>>
    /\ args' = NoArgs
    /\ NoExportOutput
    /\ UNCHANGED <<suffix, validated_data, transformed_data, input_data_errors,
                   i, data_list, errors, data_src, errors_src>>
    /\ IF ~exists
       THEN /\ raised' = "FileNotFoundError"
            /\ pc' = "idle"
            /\ assigned' = {}
            /\ UNCHANGED <<raw_data, df>>
       ELSE /\ raw_data' = Some(t)
            /\ assigned' = {"raw_data"}
            /\ IF suffix \in {".xls", ".xlsx", ".csv"}
               THEN /\ df' = t
                    /\ raised' = "none"
                    /\ pc' = StageAfter("load")
               ELSE /\ raised' = "ValueError"
                    /\ pc' = "idle"
                    /\ UNCHANGED df

\* process() is called and runs _load_data
load_data(exists, t) ==
    /\ pc = "idle"
    /\ lastOp' = "process"
    /\ stages' = <<"load">>
    /\ printed' = <<>>
    /\ args' = NoArgs
    /\ NoExportOutput
    /\ UNCHANGED <<suffix, validated_data, transformed_data, input_data_errors,
                   i, data_list, errors, data_src, errors_src>>
    /\ IF ~exists
       THEN /\ raised' = "FileNotFoundError"
            /\ pc' = "idle"
            /\ assigned' = {}
            /\ UNCHANGED <<raw_data, df>>
       ELSE IF suffix \in {".xls", ".xlsx", ".csv"}
       THEN /\ raw_data' = Some(t)
            /\ assigned' = {"raw_data"}
            /\ df' = t
            /\ raised' = "none"
            /\ pc' = StageAfter("load")
       ELSE /\ raised' = "ValueError"
            /\ pc' = "idle"
            /\ assigned' = {}
            /\ UNCHANGED <<raw_data, df>>

\* Mutant: the deduplicated table is stored over raw_data.
clean_data_StoresInRaw ==
    /\ pc = "clean"
    /\ stages' = Append(stages, "clean")
    /\ df' = drop_duplicates(df)
    /\ raw_data' = Some(drop_duplicates(df))
    /\ pc' = StageAfter("clean")
    /\ UNCHANGED <<suffix, validated_data, transformed_data, input_data_errors,
                   i, data_list, errors, data_src, errors_src,
                   assigned, lastOp, raised, printed, exportOut>>

\* cleaned_data = self._clean_data(raw_data)
clean_data ==
    /\ pc = "clean"
    /\ stages' = Append(stages, "clean")
    /\ df' = drop_duplicates(df)
    /\ pc' = StageAfter("clean")
    /\ UNCHANGED <<suffix, held, i, data_list, errors, data_src, errors_src,
                   assigned, lastOp, raised, printed, exportOut>>

\* _validate_inputs is entered: data_list = [], errors = []
validate_begin ==
    /\ pc = "validate"
    /\ stages' = Append(stages, "validate")
    /\ i' = 0
    /\ data_list' = <<>>
    /\ errors' = <<>>
    /\ data_src' = <<>>
    /\ errors_src' = <<>>
    /\ pc' = "rows"
    /\ UNCHANGED <<suffix, held, df, assigned, lastOp, raised, printed, exportOut>>

\* one iteration of: for _, row in df.iterrows()
validate_row ==
    /\ pc = "rows"
    /\ i < Len(df)
    /\ LET row == df[i + 1]
       IN  IF IsValid(row) \/ Caught("ValidationError")
           THEN /\ data_list' = data_list \o ValidRecords(row)
                /\ data_src' = data_src \o [k \in 1..Len(ValidRecords(row)) |-> i + 1]
                /\ errors' = errors \o ErrorRecords(row)
                /\ errors_src' = errors_src \o [k \in 1..Len(ErrorRecords(row)) |-> i + 1]
                /\ i' = i + 1
                /\ UNCHANGED <<df, pc, raised>>
           ELSE /\ raised' = "ValidationError"
                /\ pc' = "idle"
                /\ NoLocals
    /\ UNCHANGED <<suffix, held, stages, assigned, lastOp, printed, exportOut>>

\* Mutant: a failing index construction clears the validated frame.
validate_finish_ClearsOnFailure ==
    /\ pc = "rows"
    /\ i = Len(df)
    /\ IF IndexKeyError(data_list)
       THEN /\ raised' = "KeyError"
            /\ pc' = "idle"
            /\ NoLocals
            /\ validated_data' = None
            /\ UNCHANGED <<input_data_errors, assigned, printed>>
       ELSE /\ printed' = Append(printed, Summary(errors))
            /\ UNCHANGED locals
            /\ input_data_errors' = Some(error_df(errors))
            /\ validated_data' = Some(df_validated(data_list))
            /\ assigned' = assigned \cup {"input_data_errors", "validated_data"}
            /\ pc' = StageAfter("validate")
            /\ UNCHANGED raised
    /\ UNCHANGED <<suffix, raw_data, transformed_data, stages, lastOp, exportOut>>

\* Mutant: the error frame is built and stored before the index is constructed.
validate_finish_ErrorsFirst ==
    /\ pc = "rows"
    /\ i = Len(df)
    /\ input_data_errors' = Some(error_df(errors))
    /\ IF IndexKeyError(data_list)
       THEN /\ raised' = "KeyError"
            /\ pc' = "idle"
            /\ NoLocals
            /\ assigned' = assigned \cup {"input_data_errors"}
            /\ UNCHANGED <<validated_data, printed>>
       ELSE /\ printed' = Append(printed, Summary(errors))
            /\ UNCHANGED locals
            /\ validated_data' = Some(df_validated(data_list))
            /\ assigned' = assigned \cup {"input_data_errors", "validated_data"}
            /\ pc' = StageAfter("validate")
            /\ UNCHANGED raised
    /\ UNCHANGED <<suffix, raw_data, transformed_data, stages, lastOp, exportOut>>

\* the rest of _validate_inputs, after the loop
validate_finish ==
    /\ pc = "rows"
    /\ i = Len(df)
    /\ IF IndexKeyError(data_list)
       THEN /\ raised' = "KeyError"
            /\ pc' = "idle"
            /\ NoLocals
            /\ UNCHANGED <<validated_data, input_data_errors, assigned, printed>>
       ELSE /\ printed' = Append(printed, Summary(errors))
            /\ UNCHANGED locals
            /\ input_data_errors' = Some(error_df(errors))
            /\ validated_data' = Some(df_validated(data_list))
            /\ assigned' = assigned \cup {"input_data_errors", "validated_data"}
            /\ pc' = StageAfter("validate")
            /\ UNCHANGED raised
    /\ UNCHANGED <<suffix, raw_data, transformed_data, stages, lastOp, exportOut>>

\* _transform_data(validated_data), then process() returns
transform_data ==
    /\ pc = "transform"
    /\ stages' = Append(stages, "transform")
    /\ transformed_data' = validated_data
    /\ assigned' = assigned \cup {"transformed_data"}
    /\ pc' = StageAfter("transform")
    /\ NoLocals
    /\ UNCHANGED <<suffix, raw_data, validated_data, input_data_errors,
                   lastOp, raised, printed, exportOut>>

-----------------------------------------------------------------------------
(* export_data *)

\* Mutant: the check that the error frame is not empty is missing.
input_errors_exist_NoEmptyCheck(export_errors) ==
    /\ export_errors
    /\ input_data_errors # None

\* input_errors_exist
input_errors_exist(export_errors) ==
    /\ export_errors
    /\ input_data_errors # None
    /\ ~empty(input_data_errors[1])

\* Mutant: the check that the validated frame is not empty is missing.
validated_data_exist_NoEmptyCheck(export_validated) ==
    /\ export_validated
    /\ validated_data # None

\* validated_data_exist
validated_data_exist(export_validated) ==
    /\ export_validated
    /\ validated_data # None
    /\ ~empty(validated_data[1])

\* data_to_export: the sheet names, in the order they are appended
data_to_export(export_errors, export_validated) ==
    (IF input_errors_exist(export_errors) THEN <<"Input Data Errors">> ELSE <<>>)
    \o (IF validated_data_exist(export_validated) THEN <<"Validated Data">> ELSE <<>>)

\* the message of the early exit
NoExportMessage(export_errors, export_validated) ==
    IF ~export_errors /\ ~export_validated
    THEN "No data selected for export"
    ELSE "No available data to export for the selected options"

\* the except clauses around output_dir.mkdir
MkdirHandler(exc) ==
    CASE exc = "PermissionError" -> "Permission Denied: Cannot create folder"
      [] exc = "OSError" -> "General OS Error creating directory"

\* the except clauses around the ExcelWriter block; "uncaught" when none matches
WriteHandler(exc) ==
    CASE exc = "PermissionError" -> "Permission Denied: The file is likely open"
      [] exc = "OSError" -> "Failed to export data"
      [] OTHER -> "uncaught"

\* Mutant: export_data clears the validated frame once it has been exported.
ExportFrame_ClearsValidated ==
    /\ validated_data' = None
    /\ UNCHANGED <<suffix, raw_data, transformed_data, input_data_errors, pc, locals, stages,
                   assigned>>

\* The attributes export_data leaves alone: it assigns no self.* attribute
\* and calls no stage.
ExportFrame == UNCHANGED <<suffix, held, pc, locals, stages, assigned>>

\* export_data(output_file_name, export_errors, export_validated, output_folder).
\* inside_cwd: the output path is inside the working directory (relative_to succeeds);
\* mkdir: what output_dir.mkdir does; write: what the ExcelWriter block does.
export_data(export_errors, export_validated, inside_cwd, mkdir, write) ==
    /\ pc = "idle"
    /\ lastOp' = "export_data"
    /\ args' = [export_errors |-> export_errors, export_validated |-> export_validated]
    /\ ExportFrame
    /\ LET selected == data_to_export(export_errors, export_validated)
       IN  IF selected = <<>>
           THEN /\ printed' = <<NoExportMessage(export_errors, export_validated)>>
                /\ raised' = "none"
                /\ NoExportOutput
           ELSE IF mkdir # "ok"
           THEN /\ printed' = <<MkdirHandler(mkdir)>>
                /\ raised' = "none"
                /\ NoExportOutput
           ELSE IF write # "ok"
           THEN /\ dirCreated' = TRUE
                /\ workbook' = <<>>
                /\ exported_items' = <<>>
                /\ IF WriteHandler(write) = "uncaught"
                   THEN printed' = <<>> /\ raised' = write
                   ELSE printed' = <<WriteHandler(write)>> /\ raised' = "none"
           ELSE /\ dirCreated' = TRUE
                /\ workbook' = selected
                /\ exported_items' = selected
                /\ IF inside_cwd
                   THEN /\ printed' = <<"Export successful", "exported to", "Location">>
                        /\ raised' = "none"
                   ELSE /\ printed' = <<"Export successful", "exported to">>
                        /\ raised' = "ValueError"

MkdirOutcomes == {"ok", "PermissionError", "OSError"}

WriteOutcomes == {"ok", "PermissionError", "OSError", "ValueError"}

-----------------------------------------------------------------------------
(* The pipeline: any sequence of process() and export_data() calls *)

Suffixes == {".xlsx", ".csv", ".txt"}

Init ==
    /\ suffix \in Suffixes
    /\ raw_data = None
    /\ validated_data = None
    /\ transformed_data = None
    /\ input_data_errors = None
    /\ pc = "idle"
    /\ df = <<>>
    /\ i = 0
    /\ data_list = <<>>
    /\ errors = <<>>
    /\ data_src = <<>>
    /\ errors_src = <<>>
    /\ stages = <<>>
    /\ assigned = {}
    /\ lastOp = "none"
    /\ raised = "none"
    /\ printed = <<>>
    /\ args = NoArgs
    /\ dirCreated = FALSE
    /\ workbook = <<>>
    /\ exported_items = <<>>

Next ==
    \/ \E exists \in BOOLEAN, t \in Tables(SourceRows, MaxRows) : load_data(exists, t)
    \/ clean_data
    \/ validate_begin
    \/ validate_row
    \/ validate_finish
    \/ transform_data
    \/ \E export_errors \in BOOLEAN, export_validated \in BOOLEAN, inside_cwd \in BOOLEAN,
          mkdir \in MkdirOutcomes, write \in WriteOutcomes :
            export_data(export_errors, export_validated, inside_cwd, mkdir, write)

Spec == Init /\ [][Next]_vars

-----------------------------------------------------------------------------
(* _validate_inputs alone, on any cleaned table *)

CleanedTables == {t \in Tables(Rows, MaxRows) : drop_duplicates(t) = t}

InitValidate ==
    /\ suffix = ".csv"
    /\ raw_data = None
    /\ validated_data = None
    /\ transformed_data = None
    /\ input_data_errors = None
    /\ pc = "validate"
    /\ df \in CleanedTables
    /\ i = 0
    /\ data_list = <<>>
    /\ errors = <<>>
    /\ data_src = <<>>
    /\ errors_src = <<>>
    /\ stages = <<"load", "clean">>
    /\ assigned = {}
    /\ lastOp = "process"
    /\ raised = "none"
    /\ printed = <<>>
    /\ args = NoArgs
    /\ dirCreated = FALSE
    /\ workbook = <<>>
    /\ exported_items = <<>>

NextValidate ==
    \/ validate_begin
    \/ validate_row
    \/ validate_finish

SpecValidate == InitValidate /\ [][NextValidate]_vars

-----------------------------------------------------------------------------
(* _clean_data alone, on any loaded table *)

InitClean ==
    /\ suffix = ".csv"
    /\ df \in Tables(SourceRows, MaxRows + 2)
    /\ raw_data = Some(df)
    /\ validated_data = None
    /\ transformed_data = None
    /\ input_data_errors = None
    /\ pc = "clean"
    /\ i = 0
    /\ data_list = <<>>
    /\ errors = <<>>
    /\ data_src = <<>>
    /\ errors_src = <<>>
    /\ stages = <<"load">>
    /\ assigned = {"raw_data"}
    /\ lastOp = "process"
    /\ raised = "none"
    /\ printed = <<>>
    /\ args = NoArgs
    /\ dirCreated = FALSE
    /\ workbook = <<>>
    /\ exported_items = <<>>

NextClean == clean_data

SpecClean == InitClean /\ [][NextClean]_vars

-----------------------------------------------------------------------------
(* Claims about the loop of _validate_inputs *)

\* how many entries of src come from row position r
Count(src, r) == Cardinality({k \in 1..Len(src) : src[k] = r})

\* the number of fields of the row that fail validation
FailingFields(row) == Cardinality({f \in FieldSet : ~FieldOk(row, f)})

\* the loop has consumed every row of df
LoopDone == pc = "rows" /\ i = Len(df)

\* C1: every row the loop of _validate_inputs has consumed contributed either
\* exactly one record to data_list and no error record, or at least one error
\* record and no record to data_list; a row not yet consumed contributed
\* nothing; and when the frames are built they hold exactly these records.
C1_RowPartition ==
    pc \in {"rows", "transform"} =>
        /\ Len(data_src) = Len(data_list)
        /\ Len(errors_src) = Len(errors)
        /\ \A r \in 1..Len(df) :
              IF r <= i
              THEN \/ Count(data_src, r) = 1 /\ Count(errors_src, r) = 0
                   \/ Count(data_src, r) = 0 /\ Count(errors_src, r) >= 1
              ELSE Count(data_src, r) = 0 /\ Count(errors_src, r) = 0
        /\ pc = "transform" =>
              /\ i = Len(df)
              /\ Len(validated_data[1].rows) = Len(data_list)
              /\ input_data_errors[1].rows = errors

\* witness of C1: the loop is done on a table with a valid row and a row
\* with several failing fields
C1_Witness ==
    /\ LoopDone
    /\ Len(df) = 2
    /\ Len(data_list) = 1
    /\ Len(errors) >= 2

C3_FailuresNeverFatal ==
    [][pc = "rows" =>
          /\ raised' # "ValidationError"
          /\ pc' = "rows" => (i' = i + 1 /\ i' <= Len(df))
          /\ pc' # "rows" =>
                /\ i = Len(df)
                /\ raised' # "none" => (raised' = "KeyError" /\ data_list # <<>>)]_vars

\* witness of C3: the first row failed and the row after it was consumed and routed
C3_Witness ==
    /\ LoopDone
    /\ Len(df) = 2
    /\ Count(errors_src, 1) >= 1
    /\ Count(data_src, 2) + Count(errors_src, 2) >= 1
    /\ raised = "none"

-----------------------------------------------------------------------------
(* Claims about process() *)

\* the most recent call was process() and it has ended
ProcessEnded == lastOp = "process" /\ pc = "idle"

\* the most recent process() call got past _load_data
Loaded == Len(stages) >= 2

IsPrefix(s, t) == Len(s) <= Len(t) /\ \A k \in 1..Len(s) : s[k] = t[k]

\* C4: a process() call on a source of n >= 1 distinct rows that are all
\* schema-valid returns without raising, with n validated rows, no error row
\* and the all-clear summary.
C4_AllValidSource ==
    ( /\ ProcessEnded
      /\ Loaded
      /\ Len(raw_data[1]) >= 1
      /\ drop_duplicates(raw_data[1]) = raw_data[1]
      /\ \A r \in 1..Len(raw_data[1]) : IsValid(raw_data[1][r]) )
    => /\ raised = "none"
       /\ validated_data # None
       /\ Len(validated_data[1].rows) = Len(raw_data[1])
       /\ input_data_errors # None
       /\ Len(input_data_errors[1].rows) = 0
       /\ printed = <<"All rows passed validation successfully">>

\* C5: the stages a process() call has started are always an initial part of
\* load, clean, validate, transform (in order, none skipped over, none
\* repeated), each stage starts only when the one before it has returned, and
\* a call that returns without raising has run all four.
C5_StagesInOrder ==
    /\ IsPrefix(stages, StageOrder)
    /\ pc = "clean" => stages = SubSeq(StageOrder, 1, 1)
    /\ pc = "validate" => stages = SubSeq(StageOrder, 1, 2)
    /\ pc \in {"rows", "transform"} => stages = SubSeq(StageOrder, 1, 3)
    /\ (ProcessEnded /\ raised = "none") => stages = StageOrder

\* witness of C5: a process() call on a source with rows has returned
C5_Witness ==
    /\ ProcessEnded
    /\ raised = "none"
    /\ stages = StageOrder
    /\ Len(raw_data[1]) >= 2

-----------------------------------------------------------------------------
(* Claims about export_data *)

Exported == lastOp = "export_data"

\* the error frame is held and has rows
ErrorsAvailable == input_data_errors # None /\ Len(input_data_errors[1].rows) > 0

\* the validated frame is held and has rows
ValidatedAvailable == validated_data # None /\ Len(validated_data[1].rows) > 0

InSeq(x, s) == \E k \in 1..Len(s) : s[k] = x

NoOpMessages ==
    {"No data selected for export", "No available data to export for the selected options"}

FailureMessages ==
    {"Permission Denied: Cannot create folder", "General OS Error creating directory",
     "Permission Denied: The file is likely open", "Failed to export data"}

\* C6: a step that is an export_data call starts no stage and leaves raw_data,
\* validated_data, input_data_errors and transformed_data as they were.
C6_ExportLeavesPipelineState ==
    [][lastOp' = "export_data" =>
          UNCHANGED <<raw_data, validated_data, input_data_errors, transformed_data,
                      stages, pc>>]_vars

\* witness of C6: an export that wrote a workbook after a process() call that returned
C6_Witness ==
    /\ Exported
    /\ workbook # <<>>
    /\ stages = StageOrder
    /\ transformed_data # None

\* C7: an export_data call with both flags false, or with every requested set
\* null or empty, makes no directory and writes no file, returns, and prints
\* the message of its case.
C7_NoOpExport ==
    ( /\ Exported
      /\ args.export_errors => ~ErrorsAvailable
      /\ args.export_validated => ~ValidatedAvailable )
    => /\ ~dirCreated
       /\ workbook = <<>>
       /\ raised = "none"
       /\ printed = <<IF ~args.export_errors /\ ~args.export_validated
                      THEN "No data selected for export"
                      ELSE "No available data to export for the selected options">>

\* witness of C7: the errors were requested and the held error frame is empty
C7_Witness ==
    /\ Exported
    /\ args.export_errors
    /\ input_data_errors # None
    /\ ~ErrorsAvailable
    /\ printed = <<"No available data to export for the selected options">>

\* C8: the workbook an export_data call saved holds the sheet "Input Data
\* Errors" exactly when the errors were requested and are held and not empty,
\* and the sheet "Validated Data" exactly when the validated rows were
\* requested and are held and not empty.
C8_SheetsWritten ==
    (Exported /\ workbook # <<>>) =>
        /\ InSeq("Input Data Errors", workbook) <=> (args.export_errors /\ ErrorsAvailable)
        /\ InSeq("Validated Data", workbook) <=> (args.export_validated /\ ValidatedAvailable)

\* witness of C8: both sets requested, the validated frame held but empty: it
\* is skipped and the errors are written
C8_Witness ==
    /\ Exported
    /\ args.export_errors
    /\ args.export_validated
    /\ validated_data # None
    /\ workbook = <<"Input Data Errors">>
    /\ raised = "none"

\* C9: no exception leaves an export_data call.
C9_ExportNeverRaises == Exported => raised = "none"

\* C10: an export_data call ends with exactly one outcome printed: the no-op
\* notice, the success summary (and then the workbook was saved with the
\* sheets it names) or a failure message (and then no workbook was saved).
C10_OneOutcomeReported ==
    Exported =>
        /\ printed # <<>>
        /\ \/ printed[1] \in NoOpMessages /\ Len(printed) = 1 /\ workbook = <<>>
           \/ /\ printed[1] = "Export successful"
              /\ workbook # <<>>
              /\ exported_items = workbook
              /\ \A k \in 1..Len(printed) : printed[k] \notin FailureMessages
           \/ printed[1] \in FailureMessages /\ Len(printed) = 1 /\ workbook = <<>>

-----------------------------------------------------------------------------
(* Claims about failing process() calls *)

SupportedSuffixes == {".xls", ".xlsx", ".csv"}

LoadFailures == {"FileNotFoundError", "ValueError"}

\* C11: a process() call whose load stage fails (the path does not exist:
\* FileNotFoundError; the extension is not .xls, .xlsx or .csv: ValueError, and
\* with such an extension every call fails) raises out of the load stage, starts
\* no later stage, and assigns none of raw_data, validated_data,
\* input_data_errors, transformed_data.
C11_LoadFailureLeavesState ==
    [][( /\ pc = "idle"
         /\ lastOp' = "process"
         /\ (raised' \in LoadFailures \/ suffix \notin SupportedSuffixes) )
       => /\ raised' \in LoadFailures
          /\ suffix \notin SupportedSuffixes => raised' # "none"
          /\ pc' = "idle"
          /\ stages' = <<"load">>
          /\ assigned' = {}
          /\ UNCHANGED <<raw_data, validated_data, input_data_errors, transformed_data>>]_vars

\* witness of C11: a call failed in the load stage after an earlier call had
\* populated the attributes
C11_Witness ==
    /\ ProcessEnded
    /\ raised = "FileNotFoundError"
    /\ stages = <<"load">>
    /\ raw_data # None
    /\ input_data_errors # None
    /\ transformed_data # None

-----------------------------------------------------------------------------
(* Claims about repeated process() calls *)

\* the error records the loop of _validate_inputs leaves for the table t
RECURSIVE AllErrors(_)
AllErrors(t) ==
    IF t = <<>> THEN <<>>
    ELSE AllErrors(SubSeq(t, 1, Len(t) - 1)) \o ErrorRecords(t[Len(t)])

\* the validated records the loop of _validate_inputs leaves for the table t
RECURSIVE AllValid(_)
AllValid(t) ==
    IF t = <<>> THEN <<>>
    ELSE AllValid(SubSeq(t, 1, Len(t) - 1)) \o ValidRecords(t[Len(t)])

AllArtifacts == {"raw_data", "validated_data", "input_data_errors", "transformed_data"}

\* C13: every process() call re-executes from the source. The load stage of a
\* call stores the table it has just read as raw_data; the validation stage
\* replaces both frames by those of the deduplicated table of this call; and
\* when any successful call has ended, whatever calls came before it, all four
\* artifacts were assigned by it and are what the table it read determines,
\* with no row of an earlier call among them.
C13_RerunFromSource ==
    /\ []((ProcessEnded /\ raised = "none") =>
              LET T == drop_duplicates(raw_data[1])
              IN  /\ assigned = AllArtifacts
                  /\ input_data_errors[1].rows = AllErrors(T)
                  /\ validated_data = Some(df_validated(AllValid(T)))
                  /\ transformed_data = validated_data)
    /\ [][(pc = "idle" /\ pc' = "clean") => raw_data' = Some(df')]_vars
    /\ [][(pc = "rows" /\ pc' = "transform") =>
              /\ input_data_errors'[1].rows = AllErrors(drop_duplicates(raw_data[1]))
              /\ validated_data' = Some(df_validated(AllValid(drop_duplicates(raw_data[1]))))
              /\ UNCHANGED raw_data]_vars

\* witness of C13: a later call, reading other content than the call whose
\* frames are still held, is about to replace them
C13_Witness ==
    /\ LoopDone
    /\ ~IndexKeyError(data_list)
    /\ transformed_data # None
    /\ input_data_errors # None
    /\ input_data_errors[1].rows # <<>>
    /\ errors # <<>>
    /\ input_data_errors[1].rows # errors

-----------------------------------------------------------------------------
(* Claims about _validate_inputs and _clean_data at their boundaries *)

\* C14: validating a cleaned table of zero rows does not fail: the step after
\* the (empty) loop stores a validated frame of zero rows and an error frame
\* of zero rows whose columns are the input's columns followed by total_errors
\* and error_details.
C14_EmptyTableValidates ==
    [][(pc = "rows" /\ Len(df) = 0) =>
          /\ raised' = "none"
          /\ pc' = "transform"
          /\ validated_data' # None
          /\ validated_data'[1].rows = <<>>
          /\ input_data_errors' # None
          /\ input_data_errors'[1].rows = <<>>
          /\ input_data_errors'[1].columns =
                 Fields \o <<"total_errors", "error_details">>]_vars

\* witness of C14: the validation of an empty cleaned table has completed
C14_Witness ==
    /\ pc = "transform"
    /\ stages = SubSeq(StageOrder, 1, 3)
    /\ Len(df) = 0
    /\ input_data_errors # None
    /\ validated_data # None

\* the _clean_data step of the call has run and its result is in df
Cleaned == pc = "validate" /\ stages = <<"load", "clean">>

\* C15: deduplication is idempotent: cleaning the table _clean_data returned
\* gives that same table, same rows in the same order.
C15_CleanIdempotent ==
    Cleaned => drop_duplicates(df) = df

\* witness of C15: _clean_data has dropped rows and kept more than one
C15_Witness ==
    /\ Cleaned
    /\ Len(df) >= 2
    /\ Len(df) < Len(raw_data[1])

\* position of the first occurrence of row in the table t
FirstOccurrence(t, row) ==
    CHOOSE k \in 1..Len(t) : t[k] = row /\ \A m \in 1..(k - 1) : t[m] # row

\* C16: the table _clean_data returns for T holds each distinct row of T
\* exactly once and no other row, in the order of the rows' first occurrences
\* in T; T itself (still held as raw_data) is not modified; an empty T gives
\* an empty table.
C16_CleanKeepsFirst ==
    /\ [](Cleaned =>
             LET T == raw_data[1]
             IN  /\ \A r \in 1..Len(T) :
                        Cardinality({k \in 1..Len(df) : df[k] = T[r]}) = 1
                 /\ \A k \in 1..Len(df) : \E r \in 1..Len(T) : T[r] = df[k]
                 /\ \A a, b \in 1..Len(df) :
                        a < b => FirstOccurrence(T, df[a]) < FirstOccurrence(T, df[b])
                 /\ (T = <<>> => df = <<>>))
    /\ [][pc = "clean" => (raw_data' = raw_data /\ raw_data = Some(df))]_vars

\* witness of C16: a row repeated after a different row has been dropped
C16_Witness ==
    /\ Cleaned
    /\ \E a, b, c \in 1..Len(raw_data[1]) :
           /\ a < b
           /\ b < c
           /\ raw_data[1][a] = raw_data[1][c]
           /\ raw_data[1][a] # raw_data[1][b]
    /\ Len(df) = 2

-----------------------------------------------------------------------------
(* Claims about the error records of one row *)

\* the failing fields of a row, in the order the schema declares them
FailingSeq(row) == SelectSeq(Fields, LAMBDA f : ~FieldOk(row, f))

\* how many error records the rows before position r have left
ErrorsBefore(r) == Cardinality({k \in 1..Len(errors_src) : errors_src[k] < r})

\* C17: for a consumed row with K failing fields the K error records follow each
\* other in the order the schema declares the failing fields; the j-th carries
\* the row's original cells and an error_details made of exactly the first j
\* diagnostics, numbered 1..j, each with the offending input and its message;
\* so the text of each record extends the text of the record before it by one
\* diagnostic.
C17_IncrementalDetails ==
    pc = "rows" =>
        \A r \in 1..i :
            LET F == FailingSeq(df[r])
                base == ErrorsBefore(r)
            IN  \A j \in 1..Len(F) :
                    /\ base + j <= Len(errors)
                    /\ errors_src[base + j] = r
                    /\ \A f \in FieldSet : errors[base + j][f] = df[r][f]
                    /\ Len(errors[base + j].error_details) = j
                    /\ \A n \in 1..j :
                           errors[base + j].error_details[n] =
                               [n |-> n,
                                input |-> df[r][F[n]],
                                msg |-> Coerce(FieldType(F[n]), df[r][F[n]]).msg]
                    /\ j > 1 =>
                           /\ IsPrefix(errors[base + j - 1].error_details,
                                       errors[base + j].error_details)
                           /\ Len(errors[base + j].error_details) =
                                  Len(errors[base + j - 1].error_details) + 1

\* witness of C17: a consumed row with several failing fields, after a row that
\* left error records of its own
C17_Witness ==
    /\ pc = "rows"
    /\ \E r \in 2..i :
           /\ Len(FailingSeq(df[r])) >= 2
           /\ ErrorsBefore(r) >= 1
           /\ Len(errors[ErrorsBefore(r) + 2].error_details) = 2

-----------------------------------------------------------------------------
(* Claims about the artifacts the pipeline holds *)

\* the row sequences of the artifacts held as attributes
HeldTables ==
    (IF raw_data = None THEN {} ELSE {raw_data[1]})
    \cup {a[1].rows : a \in {validated_data, transformed_data, input_data_errors} \ {None}}

\* C18 as claimed: after a successful process() the pipeline holds a cleaned
\* artifact, the deduplicated table the clean stage of that call produced.
C18_CleanedArtifactHeld ==
    (ProcessEnded /\ raised = "none") =>
        \E a \in HeldTables : a = drop_duplicates(raw_data[1])

\* C18 as amended: the held artifacts are raw_data, validated_data,
\* input_data_errors and transformed_data, each replaced whole and only by the
\* stage that produces it: raw_data by the load stage with the table read,
\* validated_data and input_data_errors together by the end of the validation
\* stage with the frames of its two lists, transformed_data by the transform
\* stage with the validated frame. The clean stage stores nothing: its result
\* is a local of process() and is gone when the call has ended.
C18_ArtifactsReplacedByStage ==
    /\ [][raw_data' # raw_data =>
              (pc = "idle" /\ pc' = "clean" /\ raw_data' = Some(df'))]_vars
    /\ [][(validated_data' # validated_data \/ input_data_errors' # input_data_errors) =>
              /\ pc = "rows"
              /\ pc' = "transform"
              /\ validated_data' = Some(df_validated(data_list))
              /\ input_data_errors'[1].rows = errors]_vars
    /\ [][transformed_data' # transformed_data =>
              (pc = "transform" /\ transformed_data' = validated_data)]_vars
    /\ [][pc = "clean" =>
              /\ df' = drop_duplicates(df)
              /\ UNCHANGED <<raw_data, validated_data, input_data_errors,
                             transformed_data>>]_vars
    /\ [](pc = "idle" => df = <<>>)

\* witness of C18: a successful call whose clean stage dropped rows has ended
C18_Witness ==
    /\ ProcessEnded
    /\ raised = "none"
    /\ assigned = AllArtifacts
    /\ drop_duplicates(raw_data[1]) # raw_data[1]

\* the cleaned tables whose validation runs to its end
CompletedRuns ==
    {t \in Tables(SourceRows, MaxRows) :
        drop_duplicates(t) = t /\ ~IndexKeyError(AllValid(t))}

\* C19: in every reachable state validated_data and input_data_errors are
\* both unset, or both set and the two frames one validation run that
\* completed leaves for one cleaned table; transformed_data, when set, is the
\* validated frame of a validation run that completed.
C19_FramesFromOneRun ==
    /\ (validated_data = None) <=> (input_data_errors = None)
    /\ validated_data # None =>
           \E t \in CompletedRuns :
               /\ input_data_errors[1].rows = AllErrors(t)
               /\ input_data_errors[1].columns = col_names
               /\ validated_data[1] = df_validated(AllValid(t))
    /\ transformed_data # None =>
           \E t \in CompletedRuns : transformed_data[1] = df_validated(AllValid(t))

\* witness of C19: the frames of a completed run are still held after a later
\* call, on other content, has failed in its validation stage
C19_Witness ==
    /\ pc = "idle"
    /\ raised = "KeyError"
    /\ transformed_data # None
    /\ validated_data # None
    /\ input_data_errors[1].rows # <<>>
    /\ input_data_errors[1].rows # AllErrors(drop_duplicates(raw_data[1]))

====
